---------------------------- MODULE Spec2Model ----------------------------
(***************************************************************************)
(* A model of pyclewn's Vim buffers module, lib/clewn/buffer.py: the       *)
(* classes Buffer, Annotation, FrameAnnotation and BufferSet, driven       *)
(* through their public operations, with the netbeans socket reduced to    *)
(* what buffer.py uses of it (a serial number allocator, the shared frame  *)
(* annotation, last_buf and send_cmd).                                     *)
(*                                                                         *)
(* Python values.  A path name is a sequence of one-character strings, an  *)
(* annotation id is a tagged pair (<<"int", n>> for a breakpoint number,   *)
(* <<"str", s>> for a string), None is the value None below.  An object    *)
(* reference is an index: a Buffer is referred to by its position in       *)
(* buf_list, an Annotation by the Buffer that holds it and its key, the    *)
(* shared FrameAnnotation by FRAME_OBJ.  A Python dict is a sequence of    *)
(* [key, val] records in insertion order.                                  *)
(***************************************************************************)
EXTENDS Integers, Sequences, FiniteSets, TLC

None == <<"None">>
PyInt(n) == <<"int", n>>
PyStr(s) == <<"str", s>>
PyBool(b) == <<"bool", b>>

\* Whether a Python value used as a condition is true (None, 0 and the
\* empty string are false).
Truthy(v) ==
    IF v = None THEN FALSE
    ELSE IF v[1] = "int" THEN v[2] # 0
    ELSE IF v[1] = "str" THEN v[2] # ""
    ELSE IF v[1] = "bool" THEN v[2]
    ELSE TRUE

\* Whether a path name (None or a sequence of characters) is true.
PathTruthy(p) == p # None /\ p # <<>>

FRAME_ANNO_ID == PyStr("frame")

-----------------------------------------------------------------------------
(* Bounds of the inputs.                                                   *)

\* Breakpoint numbers are 0..MaxBp: gdb numbers its breakpoints from 1, and
\* add_bp takes any number, 0 included, which Python holds for false.
MaxBp == 2
\* The driver makes at most MaxCalls calls.
MaxCalls == 3

BpIds == {PyInt(n) : n \in 0..MaxBp}
AnnoIds == BpIds \cup {FRAME_ANNO_ID}
\* The line numbers given to the operations (0 is not a line).
Lnums == {0, 1, 2}

PathA == <<"/", "a">>
PathB == <<"/", "b">>
PathRel == <<"a">>
PathClewn == <<"(", "c", "l", "e", "w", "n", ")", "_", "c">>
PathClewnBad == <<"x", "(", "c", "l", "e", "w", "n", ")", "_", "c">>
PathEmpty == <<>>

\* The path names given to the operations.
Paths == {PathA, PathB, PathRel, PathClewn, PathClewnBad, PathEmpty}
\* The paths that exist on disk.
ExistingPaths == {PathA, PathB}

-----------------------------------------------------------------------------
(* Python dicts.                                                           *)

RECURSIVE DictIndex(_, _, _)
DictIndex(d, k, i) ==
    IF i > Len(d) THEN 0
    ELSE IF d[i].key = k THEN i
    ELSE DictIndex(d, k, i + 1)

DictHas(d, k) == DictIndex(d, k, 1) # 0
DictGet(d, k) == d[DictIndex(d, k, 1)].val
DictSet(d, k, v) ==
    IF DictHas(d, k)
    THEN [d EXCEPT ![DictIndex(d, k, 1)].val = v]
    ELSE Append(d, [key |-> k, val |-> v])
DictDel(d, k) ==
    LET i == DictIndex(d, k, 1)
    IN  SubSeq(d, 1, i - 1) \o SubSeq(d, i + 1, Len(d))
DictKeys(d) == [i \in 1..Len(d) |-> d[i].key]

-----------------------------------------------------------------------------
(* Path names.                                                             *)

\* The characters of a name are the first 256 characters of Unicode.
\* The characters \s matches in a str pattern, among them: the white
\* space of ASCII, the separators 28 to 31, NEL and the no-break space.
WhiteSpace ==
    {"\t", "\n", "", "\f", "\r", "", "",
     "", "", " ", "", " "}
\* The characters \w matches in a str pattern, among the first 256
\* characters: the letters, the digits and the underscore.
WordChars ==
    {"0", "1", "2", "3", "4", "5", "6", "7", "8", "9", "A", "B",
     "C", "D", "E", "F", "G", "H", "I", "J", "K", "L", "M", "N",
     "O", "P", "Q", "R", "S", "T", "U", "V", "W", "X", "Y", "Z",
     "_", "a", "b", "c", "d", "e", "f", "g", "h", "i", "j", "k",
     "l", "m", "n", "o", "p", "q", "r", "s", "t", "u", "v", "w",
     "x", "y", "z", "ª", "²", "³", "µ", "¹", "º", "¼", "½", "¾",
     "À", "Á", "Â", "Ã", "Ä", "Å", "Æ", "Ç", "È", "É", "Ê", "Ë",
     "Ì", "Í", "Î", "Ï", "Ð", "Ñ", "Ò", "Ó", "Ô", "Õ", "Ö", "Ø",
     "Ù", "Ú", "Û", "Ü", "Ý", "Þ", "ß", "à", "á", "â", "ã", "ä",
     "å", "æ", "ç", "è", "é", "ê", "ë", "ì", "í", "î", "ï", "ð",
     "ñ", "ò", "ó", "ô", "õ", "ö", "ø", "ù", "ú", "û", "ü", "ý",
     "þ", "ÿ"}
ClewnTag == <<"(", "c", "l", "e", "w", "n", ")", "_">>

\* os.path.isabs
isabs(p) == Len(p) > 0 /\ p[1] = "/"

\* The number of leading white space characters, matched by ^\s*
RECURSIVE LeadingSpace(_, _)
LeadingSpace(s, i) ==
    IF i <= Len(s) /\ s[i] \in WhiteSpace THEN LeadingSpace(s, i + 1) ELSE i - 1

\* Whether s[i+1 ..] matches \(clewn\)_\w+$ ($ also matches before a final
\* newline).
ClewnSuffixAt(s, i) ==
    LET j == i + Len(ClewnTag)
    IN  /\ j < Len(s)
        /\ SubSeq(s, i + 1, j) = ClewnTag
        /\ \E e \in {Len(s) - 1, Len(s)} :
              /\ e > j
              /\ e = Len(s) \/ s[Len(s)] = "\n"
              /\ \A n \in (j + 1)..e : s[n] \in WordChars

\* re_clewname.match(bufname): the match object with its 'path' group (the
\* greedy match, which is the one the regexp engine reports), or None.  A
\* dot does not match a newline.
re_clewname_match(bufname) ==
    LET m == LeadingSpace(bufname, 1)
        at == {i \in m..Len(bufname) :
                 /\ ClewnSuffixAt(bufname, i)
                 /\ \A n \in (m + 1)..i : bufname[n] # "\n"}
    IN  IF at = {} THEN None
        ELSE LET i == CHOOSE x \in at : \A y \in at : y <= x
             IN  <<"match", SubSeq(bufname, m + 1, i)>>

is_clewnbuf(bufname) ==
    LET matchobj == re_clewname_match(bufname)
    IN  IF matchobj # None
        THEN LET path == matchobj[2]
             IN  path = <<>> \/ path \in ExistingPaths
        ELSE FALSE

-----------------------------------------------------------------------------
(* The objects.  Every operation below is a function from a world w (the   *)
(* BufferSet with its Buffers and Annotations, the netbeans socket, the    *)
(* commands sent so far by the running call, the exception raised if any   *)
(* and the value returned) to the world after it.                          *)

\* A reference to an Annotation or FrameAnnotation object: the n-th object
\* made by a call of a constructor, in heap; number 0 is the FrameAnnotation
\* the netbeans socket made for itself.
Ref(n) == <<"obj", n>>
FRAME_OBJ == Ref(0)

\* nbsock.sernum.last: each read gives the next serial number.
sernum_last(w) == [w EXCEPT !.nbsock.sernum = @ + 1]

\* nbsock.send_cmd(buf, cmd, args)
send_cmd(w, buf, cmd, args) ==
    [w EXCEPT !.sent = Append(@, [buf |-> w.buf_list[buf].buf_id, cmd |-> cmd, args |-> args])]

\* raise
Raise(w, exception) == [w EXCEPT !.exc = exception]
\* return value
Return(w, value) == [w EXCEPT !.ret = value]

\* The object a reference denotes, and the world with that object replaced.
Obj(w, r) ==
    IF r = FRAME_OBJ THEN w.nbsock.frame_annotation ELSE w.heap[r[2]]
PutObj(w, r, a) ==
    IF r = FRAME_OBJ THEN [w EXCEPT !.nbsock.frame_annotation = a]
    ELSE [w EXCEPT !.heap[r[2]] = a]

\* isinstance(anno, FrameAnnotation)
IsFrameAnnotation(w, r) == Obj(w, r).cls = "FrameAnnotation"

\* self[anno_id] of a Buffer: the value stored under the key, a reference to
\* an object or None.
BufferItem(w, b, anno_id) == DictGet(w.buf_list[b].annos, anno_id)

\* Buffer.__init__
Buffer(name, buf_id) ==
    [name |-> name, buf_id |-> buf_id, registered |-> FALSE,
     lnum |-> None, col |-> None,
     last_typeNum |-> 0, frame_typeNum |-> 0, annos |-> <<>>]

\* FrameAnnotation.__init__, given the serial number read from the socket.
FrameAnnotation(sernum) ==
    [cls |-> "FrameAnnotation", buf |-> 0, lnum |-> 0, disabled |-> FALSE,
     is_set |-> FALSE, sernum |-> sernum]

\* Buffer.get_typeNum, the last_typeNum property: the buffer after the read;
\* the value read is its last_typeNum.
get_typeNum(w, b) == [w EXCEPT !.buf_list[b].last_typeNum = @ + 1]

\* The decimal digits of a natural number, as characters.
Digit(n) == CASE n = 0 -> "0" [] n = 1 -> "1" [] n = 2 -> "2" [] n = 3 -> "3"
              [] n = 4 -> "4" [] n = 5 -> "5" [] n = 6 -> "6" [] n = 7 -> "7"
              [] n = 8 -> "8" [] n = 9 -> "9"
RECURSIVE str(_)
str(n) == IF n < 10 THEN <<Digit(n)>> ELSE Append(str(n \div 10), Digit(n % 10))
\* s[-2:]
LastTwo(s) == IF Len(s) <= 2 THEN s ELSE SubSeq(s, Len(s) - 1, Len(s))

\* Buffer.define_frameanno without its test of frame_typeNum: a type number
\* is read and declared each time the frame is placed.
define_frameanno_Always(w, b) ==
    LET w1 == get_typeNum(w, b)
        w2 == [w1 EXCEPT !.buf_list[b].frame_typeNum = w1.buf_list[b].last_typeNum]
    IN  send_cmd(w2, b, "defineAnnoType", <<<<"0">>, <<"=", ">">>, 2>>)

\* Buffer.define_frameanno
define_frameanno(w, b) ==
    IF w.buf_list[b].frame_typeNum = 0
    THEN LET w1 == get_typeNum(w, b)
             w2 == [w1 EXCEPT !.buf_list[b].frame_typeNum = w1.buf_list[b].last_typeNum]
         IN  send_cmd(w2, b, "defineAnnoType", <<<<"0">>, <<"=", ">">>, 2>>)
    ELSE w

\* Annotation.__init__ with the two reads of last_typeNum in the other
\* order: the disabled type number first.
Annotation_DisabledFirst(w, b, bp, lnum, disabled) ==
    LET w1 == sernum_last(w)
        w2 == sernum_last(w1)
        w3 == get_typeNum(w2, b)
        w4 == get_typeNum(w3, b)
        a == [cls |-> "Annotation",
              buf |-> b, bp |-> bp, lnum |-> lnum, disabled |-> disabled,
              sernum |-> w1.nbsock.sernum,
              enabled_sernum |-> w1.nbsock.sernum,
              disabled_sernum |-> w2.nbsock.sernum,
              enabled_typeNum |-> w4.buf_list[b].last_typeNum,
              disabled_typeNum |-> w3.buf_list[b].last_typeNum,
              is_set |-> FALSE, defined |-> FALSE]
    IN  [w4 EXCEPT !.heap = Append(@, a)]

\* Annotation.__init__: the two serial numbers, then the two type numbers.
\* The object made is the last of heap.
Annotation(w, b, bp, lnum, disabled) ==
    LET w1 == sernum_last(w)
        w2 == sernum_last(w1)
        w3 == get_typeNum(w2, b)
        w4 == get_typeNum(w3, b)
        a == [cls |-> "Annotation",
              buf |-> b, bp |-> bp, lnum |-> lnum, disabled |-> disabled,
              sernum |-> w1.nbsock.sernum,
              enabled_sernum |-> w1.nbsock.sernum,
              disabled_sernum |-> w2.nbsock.sernum,
              enabled_typeNum |-> w3.buf_list[b].last_typeNum,
              disabled_typeNum |-> w4.buf_list[b].last_typeNum,
              is_set |-> FALSE, defined |-> FALSE]
    IN  [w4 EXCEPT !.heap = Append(@, a)]

\* Annotation.define_bpanno.  A FrameAnnotation inherits it and has no
\* attribute defined: self.defined raises.  The format %d takes a number:
\* a bp that is a string raises once the flag is set.
define_bpanno(w, r) ==
    IF IsFrameAnnotation(w, r) THEN Raise(w, "AttributeError")
    ELSE IF ~Obj(w, r).defined
    THEN LET a == Obj(w, r)
             w1 == PutObj(w, r, [a EXCEPT !.defined = TRUE])
         IN  IF a.bp[1] # "int" THEN Raise(w1, "TypeError") ELSE
             LET w2 == send_cmd(w1, a.buf, "defineAnnoType",
                                <<str(2 * a.bp[2]), LastTwo(str(a.bp[2])), 0>>)
             IN  send_cmd(w2, a.buf, "defineAnnoType",
                          <<str(2 * a.bp[2] + 1), LastTwo(str(a.bp[2])), 1>>)
    ELSE w

\* Annotation.remove_anno (inherited by FrameAnnotation).  The buf of a
\* FrameAnnotation is None until set_buf_lnum: self.buf.registered raises.
remove_anno(w, r) ==
    LET a == Obj(w, r)
    IN  IF a.buf = 0 THEN Raise(w, "AttributeError")
        ELSE LET w1 == IF w.buf_list[a.buf].registered /\ a.is_set
                       THEN send_cmd(w, a.buf, "removeAnno", <<a.sernum>>)
                       ELSE w
             IN  PutObj(w1, r, [a EXCEPT !.is_set = FALSE])

\* The tail of Annotation.update and of FrameAnnotation.update: addAnno,
\* the cursor of the buffer, setDot, is_set.
PlaceAnno(w, r, sernum, typeNum) ==
    LET a == Obj(w, r)
        w1 == send_cmd(w, a.buf, "addAnno", <<sernum, typeNum, a.lnum>>)
        w2 == [w1 EXCEPT !.nbsock.last_buf = a.buf,
                         !.buf_list[a.buf].lnum = PyInt(a.lnum),
                         !.buf_list[a.buf].col = PyInt(0)]
        w3 == send_cmd(w2, a.buf, "setDot", <<a.lnum>>)
    IN  PutObj(w3, r, [Obj(w3, r) EXCEPT !.is_set = TRUE])

\* Annotation.update without the call of remove_anno: the marker of the
\* other state is left in the editor when the breakpoint is toggled.
Annotation_update_NoRemove(w, r, disabled) ==
    LET w1 == IF Obj(w, r).disabled # disabled
              THEN PutObj(w, r, [Obj(w, r) EXCEPT !.disabled = disabled, !.is_set = FALSE])
              ELSE w
    IN  IF ~Obj(w1, r).is_set
        THEN LET w2 == define_bpanno(w1, r)
                 a == Obj(w2, r)
                 sernum == IF a.disabled THEN a.disabled_sernum ELSE a.enabled_sernum
                 typeNum == IF a.disabled THEN a.disabled_typeNum ELSE a.enabled_typeNum
                 w3 == PutObj(w2, r, [a EXCEPT !.sernum = sernum])
             IN  IF w2.exc # "" THEN w2 ELSE PlaceAnno(w3, r, sernum, typeNum)
        ELSE w1

\* Annotation.update
Annotation_update(w, r, disabled) ==
    LET w1 == IF Obj(w, r).disabled # disabled
              THEN LET wr == remove_anno(w, r)
                   IN  PutObj(wr, r, [Obj(wr, r) EXCEPT !.disabled = disabled])
              ELSE w
    IN  IF ~Obj(w1, r).is_set
        THEN LET w2 == define_bpanno(w1, r)
                 a == Obj(w2, r)
                 sernum == IF a.disabled THEN a.disabled_sernum ELSE a.enabled_sernum
                 typeNum == IF a.disabled THEN a.disabled_typeNum ELSE a.enabled_typeNum
                 w3 == PutObj(w2, r, [a EXCEPT !.sernum = sernum])
             IN  IF w2.exc # "" THEN w2 ELSE PlaceAnno(w3, r, sernum, typeNum)
        ELSE w1

\* FrameAnnotation.set_buf_lnum
set_buf_lnum(w, r, b, lnum) ==
    PutObj(w, r, [Obj(w, r) EXCEPT !.buf = b, !.lnum = lnum, !.is_set = FALSE])

\* FrameAnnotation.update.  The buf of a FrameAnnotation is None until
\* set_buf_lnum: self.buf.define_frameanno raises.
FrameAnnotation_update(w, r, disabled) ==
    IF ~Obj(w, r).is_set
    THEN LET frame == Obj(w, r)
         IN  IF frame.buf = 0 THEN Raise(w, "AttributeError")
             ELSE LET w1 == define_frameanno(w, frame.buf)
                  IN  PlaceAnno(w1, r, frame.sernum,
                                w1.buf_list[frame.buf].frame_typeNum)
    ELSE w

\* anno.update(disabled), dispatched on the class of the object; None has
\* no method update.
update_object(w, r, disabled) ==
    IF r = None THEN Raise(w, "AttributeError")
    ELSE IF IsFrameAnnotation(w, r) THEN FrameAnnotation_update(w, r, disabled)
    ELSE Annotation_update(w, r, disabled)

\* anno.remove_anno(); None has no method remove_anno.
remove_object(w, r) ==
    IF r = None THEN Raise(w, "AttributeError") ELSE remove_anno(w, r)

-----------------------------------------------------------------------------
(* Buffer                                                                  *)

\* The loop of Buffer.update over self.keys(), from the i-th key on.
RECURSIVE UpdateKeys(_, _, _, _)
UpdateKeys(w, b, keys, i) ==
    IF i > Len(keys) \/ w.exc # "" THEN w
    ELSE UpdateKeys(update_object(w, BufferItem(w, b, keys[i]), FALSE), b, keys, i + 1)

\* The registration of Buffer.update with its flag left unset: the buffer
\* is opened in netbeans again by every update.
Register_FlagNotSet(w, b) ==
    LET name == w.buf_list[b].name
        e1 == send_cmd(w, b, "editFile", <<name>>)
        e2 == send_cmd(e1, b, "putBufferNumber", <<name>>)
    IN  send_cmd(e2, b, "stopDocumentListen", <<>>)

\* Buffer.update, "open file in netbeans": the three commands, sent once.
Register(w, b) ==
    IF ~w.buf_list[b].registered
    THEN LET name == w.buf_list[b].name
             e1 == send_cmd(w, b, "editFile", <<name>>)
             e2 == send_cmd(e1, b, "putBufferNumber", <<name>>)
             e3 == send_cmd(e2, b, "stopDocumentListen", <<>>)
         IN  [e3 EXCEPT !.buf_list[b].registered = TRUE]
    ELSE w

\* Buffer.update(anno_id=None, disabled=False)
Buffer_update(w, b, anno_id, disabled) ==
    LET w1 == Register(w, b)
    IN  IF Truthy(anno_id)
        THEN IF DictHas(w1.buf_list[b].annos, anno_id)
             THEN update_object(w1, BufferItem(w1, b, anno_id), disabled)
             ELSE Raise(w1, "KeyError")
        ELSE UpdateKeys(w1, b, DictKeys(w1.buf_list[b].annos), 1)

\* Buffer.add_anno
Buffer_add_anno(w, b, anno_id, lnum) ==
    LET w1 == IF ~DictHas(w.buf_list[b].annos, anno_id)
              THEN IF anno_id = FRAME_ANNO_ID
                   THEN LET wf == set_buf_lnum(w, FRAME_OBJ, b, lnum)
                        IN  [wf EXCEPT !.buf_list[b].annos =
                                          DictSet(@, anno_id, FRAME_OBJ)]
                   ELSE LET wa == Annotation(w, b, anno_id, lnum, FALSE)
                        IN  [wa EXCEPT !.buf_list[b].annos =
                                          DictSet(@, anno_id, Ref(Len(wa.heap)))]
              ELSE LET r == BufferItem(w, b, anno_id)
                   IN  IF r = None THEN Raise(w, "AttributeError")
                       ELSE PutObj(w, r, [Obj(w, r) EXCEPT !.lnum = lnum])
    IN  IF w1.exc # "" THEN w1 ELSE Buffer_update(w1, b, anno_id, FALSE)

\* Buffer.delete_anno
Buffer_delete_anno(w, b, anno_id) ==
    IF ~DictHas(w.buf_list[b].annos, anno_id)
    THEN Raise(w, "AssertionError")
    ELSE LET w1 == remove_object(w, BufferItem(w, b, anno_id))
         IN  IF w1.exc # "" THEN w1
             ELSE IF anno_id = FRAME_ANNO_ID
             THEN [w1 EXCEPT !.buf_list[b].annos = DictDel(@, anno_id)]
             ELSE w1

\* dict.clear, which Buffer inherits: the Buffer holds no annotation.
Buffer_clear(w, b) == [w EXCEPT !.buf_list[b].annos = <<>>]

\* dict.__setitem__, which Buffer inherits: self[key] = value.
Buffer_setitem(w, b, key, value) ==
    [w EXCEPT !.buf_list[b].annos = DictSet(@, key, value)]

\* dict.__delitem__, which Buffer inherits: del self[key].
Buffer_delitem(w, b, key) ==
    IF ~DictHas(w.buf_list[b].annos, key) THEN Raise(w, "KeyError")
    ELSE [w EXCEPT !.buf_list[b].annos = DictDel(@, key)]

\* dict.pop(key), which Buffer inherits: the value is removed and returned.
Buffer_pop(w, b, key) ==
    IF ~DictHas(w.buf_list[b].annos, key) THEN Raise(w, "KeyError")
    ELSE Return([w EXCEPT !.buf_list[b].annos = DictDel(@, key)],
                BufferItem(w, b, key))

\* dict.popitem, which Buffer inherits: the pair inserted last is removed
\* and returned.
Buffer_popitem(w, b) ==
    LET annos == w.buf_list[b].annos
    IN  IF annos = <<>> THEN Raise(w, "KeyError")
        ELSE Return([w EXCEPT !.buf_list[b].annos = SubSeq(annos, 1, Len(annos) - 1)],
                    <<"tuple", annos[Len(annos)].key, annos[Len(annos)].val>>)

\* dict.setdefault(key, default), which Buffer inherits.
Buffer_setdefault(w, b, key, default) ==
    IF DictHas(w.buf_list[b].annos, key) THEN Return(w, BufferItem(w, b, key))
    ELSE Return(Buffer_setitem(w, b, key, default), default)

\* dict.__ior__, which Buffer inherits: self |= {key: value}, the value of
\* the call is the Buffer.
Buffer_ior(w, b, key, value) ==
    Return(Buffer_setitem(w, b, key, value), <<"Buffer", b>>)

\* The loop of Buffer.remove_all over self.keys(), from the i-th key on.
RECURSIVE RemoveKeys(_, _, _, _, _)
RemoveKeys(w, b, keys, lnum, i) ==
    IF i > Len(keys) \/ w.exc # "" THEN w
    ELSE LET r == BufferItem(w, b, keys[i])
             w1 == IF lnum = None THEN remove_object(w, r)
                   ELSE IF r = None THEN Raise(w, "AttributeError")
                   ELSE IF PyInt(Obj(w, r).lnum) = lnum THEN remove_anno(w, r)
                   ELSE w
         IN  RemoveKeys(w1, b, keys, lnum, i + 1)

\* Buffer.remove_all(lnum=None)
Buffer_remove_all(w, b, lnum) ==
    RemoveKeys(w, b, DictKeys(w.buf_list[b].annos), lnum, 1)

-----------------------------------------------------------------------------
(* BufferSet                                                               *)

\* BufferSet.__getitem__: returns the Buffer, made when the path is new.
BufferSet_getitem(w, pathname) ==
    IF pathname = None \/ (~isabs(pathname) /\ ~is_clewnbuf(pathname))
    THEN Raise(w, "ValueError")
    ELSE LET w1 == IF ~DictHas(w.dict, pathname)
                   THEN LET buf == Buffer(pathname, Len(w.buf_list) + 1)
                        IN  [w EXCEPT !.buf_list = Append(@, buf),
                                      !.dict = DictSet(@, pathname, Len(w.buf_list) + 1)]
                   ELSE w
         IN  Return(w1, <<"Buffer", DictGet(w1.dict, pathname)>>)

\* BufferSet.__setitem__ and BufferSet.setdefault
BufferSet_setitem(w, pathname) == Return(BufferSet_getitem(w, pathname), None)
BufferSet_setdefault(w, pathname) == BufferSet_getitem(w, pathname)

\* BufferSet.__delitem__, BufferSet.popitem, BufferSet.pop
BufferSet_delitem(w, key) == w
BufferSet_popitem(w) == w
BufferSet_pop(w, key) == w

\* BufferSet.__len__
BufferSet_len(w) ==
    Return(w, PyInt(Cardinality({i \in 1..Len(w.dict) : ~is_clewnbuf(w.dict[i].key)})))

\* dict.clear, which BufferSet inherits: the mapping of path names is
\* emptied, buf_list and anno_dict are attributes and stay.
BufferSet_clear(w) == [w EXCEPT !.dict = <<>>]

\* dict.__ior__, which BufferSet inherits: self |= {key: buf} stores the
\* pair as it is, without a call of the __setitem__ or of the update of
\* BufferSet; the value of the call is the BufferSet.
BufferSet_ior(w, key, buf) ==
    Return([w EXCEPT !.dict = DictSet(@, key, buf)], <<"BufferSet">>)

\* BufferSet.update and BufferSet.copy
BufferSet_update(w) == Raise(w, "AssertionError")
BufferSet_copy(w) == Raise(w, "AssertionError")

\* BufferSet.add_anno
BufferSet_add_anno(w, anno_id, pathname, lnum) ==
    IF lnum <= 0 THEN Raise(w, "ValueError")
    ELSE IF pathname = None THEN Raise(w, "TypeError")
    ELSE IF ~isabs(pathname) THEN Raise(w, "ValueError")
    ELSE LET w1 == BufferSet_getitem(w, pathname)
         IN  IF w1.exc # "" THEN w1
             ELSE LET buf == w1.ret[2]
                      w2 == [w1 EXCEPT !.anno_dict = DictSet(@, anno_id, buf),
                                       !.ret = None]
                  IN  Buffer_add_anno(w2, buf, anno_id, lnum)

\* BufferSet.update_anno
BufferSet_update_anno(w, anno_id, disabled) ==
    IF ~DictHas(w.anno_dict, anno_id) THEN Raise(w, "KeyError")
    ELSE Buffer_update(w, DictGet(w.anno_dict, anno_id), anno_id, disabled)

\* BufferSet.delete_anno without the deletion from anno_dict.
BufferSet_delete_anno_KeepsEntry(w, anno_id) ==
    IF ~DictHas(w.anno_dict, anno_id) THEN Raise(w, "KeyError")
    ELSE Buffer_delete_anno(w, DictGet(w.anno_dict, anno_id), anno_id)

\* BufferSet.delete_anno
BufferSet_delete_anno(w, anno_id) ==
    IF ~DictHas(w.anno_dict, anno_id) THEN Raise(w, "KeyError")
    ELSE LET w1 == Buffer_delete_anno(w, DictGet(w.anno_dict, anno_id), anno_id)
         IN  IF w1.exc # "" THEN w1
             ELSE [w1 EXCEPT !.anno_dict = DictDel(@, anno_id)]

\* BufferSet.show_frame(pathname=None, lnum=1)
BufferSet_show_frame(w, pathname, lnum) ==
    IF lnum <= 0 THEN Raise(w, "ValueError")
    ELSE LET w1 == IF DictHas(w.anno_dict, FRAME_ANNO_ID)
                   THEN BufferSet_delete_anno(w, FRAME_ANNO_ID)
                   ELSE w
         IN  IF w1.exc # "" THEN w1
             ELSE IF PathTruthy(pathname)
                  THEN BufferSet_add_anno(w1, FRAME_ANNO_ID, pathname, lnum)
                  ELSE w1

\* BufferSet.add_bp
BufferSet_add_bp(w, bp_id, pathname, lnum) ==
    IF lnum <= 0 THEN Raise(w, "ValueError")
    ELSE BufferSet_add_anno(w, bp_id, pathname, lnum)

\* BufferSet.update_bp without its test: an unknown id raises, as it does in
\* update_anno.
BufferSet_update_bp_NoTest(w, bp_id, disabled) ==
    LET w1 == BufferSet_update_anno(w, bp_id, disabled)
    IN  IF w1.exc # "" THEN w1 ELSE Return(w1, PyBool(TRUE))

\* BufferSet.update_bp
BufferSet_update_bp(w, bp_id, disabled) ==
    IF DictHas(w.anno_dict, bp_id)
    THEN LET w1 == BufferSet_update_anno(w, bp_id, disabled)
         IN  IF w1.exc # "" THEN w1 ELSE Return(w1, PyBool(TRUE))
    ELSE Return(w, PyBool(FALSE))

\* BufferSet.getbuf
BufferSet_getbuf(w, buf_id) ==
    IF buf_id <= 0 \/ buf_id > Len(w.buf_list) THEN Return(w, None)
    ELSE Return(w, <<"Buffer", buf_id>>)

\* The loop of BufferSet.remove_all over list(self.anno_dict.keys()).
RECURSIVE DeleteKeys(_, _, _)
DeleteKeys(w, keys, i) ==
    IF i > Len(keys) \/ w.exc # "" THEN w
    ELSE DeleteKeys(BufferSet_delete_anno(w, keys[i]), keys, i + 1)

\* BufferSet.remove_all
BufferSet_remove_all(w) == DeleteKeys(w, DictKeys(w.anno_dict), 1)

\* BufferSet.get_lnum_list.  The Buffer is read with self[pathname], which
\* refuses a key that is no absolute path and no clewn buffer; None, which a
\* Buffer may hold as a value, has no attribute disabled.
BufferSet_get_lnum_list(w, pathname) ==
    IF DictHas(w.dict, pathname)
    THEN LET wb == BufferSet_getitem(w, pathname)
             b == DictGet(w.dict, pathname)
             annos == w.buf_list[b].annos
             keep == SelectSeq(annos, LAMBDA e : /\ ~Obj(w, e.val).disabled
                                                 /\ ~IsFrameAnnotation(w, e.val))
         IN  IF wb.exc # "" THEN wb
             ELSE IF \E i \in 1..Len(annos) : annos[i].val = None
             THEN Raise(w, "AttributeError")
             ELSE Return(w, <<"list", [i \in 1..Len(keep) |-> Obj(w, keep[i].val).lnum]>>)
    ELSE Return(w, <<"list", <<>>>>)

-----------------------------------------------------------------------------
(* The editor's side of the netbeans socket: what Vim holds for each       *)
(* buffer number after the commands sent to it.                            *)

RegistrationCmds == <<"editFile", "putBufferNumber", "stopDocumentListen">>
MarkerCmds == {"defineAnnoType", "addAnno", "setDot", "removeAnno"}

\* A buffer number no command was sent to yet.
NoCmds == [head |-> <<>>, nreg |-> 0, types |-> <<>>, placed |-> {}, last |-> {}]

\* The editor's buffers, with one more command received.  head is the first
\* three commands sent to the buffer, nreg the number of registration
\* commands sent to it, types the declarations of marker types in order (name,
\* glyph, colour), placed the
\* markers added and not removed since, last the line of the latest addAnno
\* of each serial number.
Receive(ed, c) ==
    LET ed1 == IF c.buf > Len(ed)
               THEN ed \o [i \in 1..(c.buf - Len(ed)) |-> NoCmds]
               ELSE ed
        e == ed1[c.buf]
        e1 == [e EXCEPT !.head = IF Len(@) < 3 THEN Append(@, c.cmd) ELSE @,
                        !.nreg = IF c.cmd \in {RegistrationCmds[i] : i \in 1..3}
                                 THEN @ + 1 ELSE @]
        e2 == CASE c.cmd = "defineAnnoType" ->
                     [e1 EXCEPT !.types = Append(@, c.args)]
                [] c.cmd = "addAnno" ->
                     [e1 EXCEPT !.placed = @ \cup {[sernum |-> c.args[1],
                                                    typeNum |-> c.args[2],
                                                    lnum |-> c.args[3]]},
                                !.last = {m \in @ : m.sernum # c.args[1]}
                                            \cup {[sernum |-> c.args[1],
                                                   lnum |-> c.args[3]]}]
                [] c.cmd = "removeAnno" ->
                     [e1 EXCEPT !.placed = {m \in @ : m.sernum # c.args[1]}]
                [] OTHER -> e1
    IN  [ed1 EXCEPT ![c.buf] = e2]

RECURSIVE ReceiveAll(_, _, _)
ReceiveAll(ed, cmds, i) ==
    IF i > Len(cmds) THEN ed ELSE ReceiveAll(Receive(ed, cmds[i]), cmds, i + 1)

-----------------------------------------------------------------------------
(* The state machine: one call after the other.  SpecDriver is the program *)
(* under the calls of its driver, the operations of BufferSet; Spec is the *)
(* program under every call of a method of its four classes.               *)

VARIABLES
    buf_list,   \* BufferSet.buf_list: the Buffers, by netbeans buffer number
    dict,       \* the BufferSet as a dict: {pathname: Buffer}
    anno_dict,  \* BufferSet.anno_dict: {anno_id: Buffer}
    nbsock,     \* the netbeans socket: sernum, frame_annotation, last_buf
    heap,       \* the Annotation and FrameAnnotation objects made, in order
    sent,       \* the commands the last call sent, in order
    outcome,    \* the last call: the exception it raised, the value it returned
    editor,     \* the editor's buffers after all the commands sent
    calls       \* the number of calls made

vars == <<buf_list, dict, anno_dict, nbsock, heap, sent, outcome, editor, calls>>

\* The netbeans socket after its construction: its FrameAnnotation has read
\* the first serial number.
Netbeans ==
    [sernum |-> 1, frame_annotation |-> FrameAnnotation(1), last_buf |-> 0]

\* The world a call starts from.
World ==
    [buf_list |-> buf_list, dict |-> dict, anno_dict |-> anno_dict,
     nbsock |-> nbsock, heap |-> heap, sent |-> <<>>, exc |-> "", ret |-> None]

\* The state after a call that ended in world w.
Call(w) ==
    /\ calls < MaxCalls
    /\ calls' = calls + 1
    /\ buf_list' = w.buf_list
    /\ dict' = w.dict
    /\ anno_dict' = w.anno_dict
    /\ nbsock' = w.nbsock
    /\ heap' = w.heap
    /\ sent' = w.sent
    /\ outcome' = [exc |-> w.exc, ret |-> w.ret]
    /\ editor' = ReceiveAll(editor, w.sent, 1)

\* BufferSet.__init__
Init ==
    /\ buf_list = <<>>
    /\ dict = <<>>
    /\ anno_dict = <<>>
    /\ nbsock = Netbeans
    /\ heap = <<>>
    /\ sent = <<>>
    /\ outcome = [exc |-> "", ret |-> None]
    /\ editor = <<>>
    /\ calls = 0

\* The path names add_anno takes, and those it refuses: None, a relative
\* path, the name of a clewn buffer, the empty string.
AbsPaths == {p \in Paths : isabs(p)}
BadPaths == (Paths \ AbsPaths) \cup {None}
PathArgs == Paths \cup {None}

\* The arguments (pathname, lnum) of add_anno, add_bp and show_frame: every
\* absolute path with every line number, and every other path with line 1.
PathLnumArgs == (AbsPaths \X Lnums) \cup (BadPaths \X {1})

AddAnno ==
    \E anno_id \in AnnoIds, a \in PathLnumArgs :
        Call(BufferSet_add_anno(World, anno_id, a[1], a[2]))
AddBp ==
    \E bp_id \in BpIds, a \in PathLnumArgs :
        Call(BufferSet_add_bp(World, bp_id, a[1], a[2]))
UpdateAnno ==
    \E anno_id \in AnnoIds, disabled \in BOOLEAN :
        Call(BufferSet_update_anno(World, anno_id, disabled))
UpdateBp ==
    \E bp_id \in BpIds, disabled \in BOOLEAN :
        Call(BufferSet_update_bp(World, bp_id, disabled))
DeleteAnno ==
    \E anno_id \in AnnoIds :
        Call(BufferSet_delete_anno(World, anno_id))
ShowFrame ==
    \E a \in PathLnumArgs \cup {<<None, 0>>} :
        Call(BufferSet_show_frame(World, a[1], a[2]))
RemoveAll ==
    Call(BufferSet_remove_all(World))
GetBuf ==
    \E buf_id \in 0..(Len(buf_list) + 1) :
        Call(BufferSet_getbuf(World, buf_id))
GetLnumList ==
    \E pathname \in Paths :
        Call(BufferSet_get_lnum_list(World, pathname))
GetItem ==
    \E pathname \in PathArgs :
        Call(BufferSet_getitem(World, pathname))
SetItem ==
    \E pathname \in PathArgs :
        Call(BufferSet_setitem(World, pathname))
SetDefault ==
    \E pathname \in PathArgs :
        Call(BufferSet_setdefault(World, pathname))
DelItem ==
    \E key \in Paths : Call(BufferSet_delitem(World, key))
PopItem ==
    Call(BufferSet_popitem(World))
Pop ==
    \E key \in Paths : Call(BufferSet_pop(World, key))
LenOp ==
    Call(BufferSet_len(World))
Update ==
    Call(BufferSet_update(World))
Copy ==
    Call(BufferSet_copy(World))
Clear ==
    Call(BufferSet_clear(World))
Ior ==
    \E key \in Paths, buf \in 1..Len(buf_list) :
        Call(BufferSet_ior(World, key, buf))
\* A Buffer's own operations, called by the driver on a Buffer of the set.
BufferUpdate ==
    \E b \in 1..Len(buf_list) :
        Call(Buffer_update(World, b, None, FALSE))
BufferRemoveAll ==
    \E b \in 1..Len(buf_list), lnum \in {None} \cup {PyInt(n) : n \in Lnums} :
        Call(Buffer_remove_all(World, b, lnum))

\* The operations of BufferSet, with Buffer.update() and Buffer.remove_all():
\* the calls of the driver.
NextDriver ==
    \/ AddAnno
    \/ AddBp
    \/ UpdateAnno
    \/ UpdateBp
    \/ DeleteAnno
    \/ ShowFrame
    \/ RemoveAll
    \/ GetBuf
    \/ GetLnumList
    \/ GetItem
    \/ SetItem
    \/ SetDefault
    \/ DelItem
    \/ PopItem
    \/ Pop
    \/ LenOp
    \/ Update
    \/ Copy
    \/ Clear
    \/ Ior
    \/ BufferUpdate
    \/ BufferRemoveAll

SpecDriver == Init /\ [][NextDriver]_vars

\* The operations BufferSet calls on its Buffers, on their Annotations and on
\* the FrameAnnotation, called from outside on the objects of the set.
BufferAddAnno ==
    \E b \in 1..Len(buf_list), anno_id \in AnnoIds, lnum \in Lnums :
        Call(Buffer_add_anno(World, b, anno_id, lnum))
BufferDeleteAnno ==
    \E b \in 1..Len(buf_list), anno_id \in AnnoIds :
        Call(Buffer_delete_anno(World, b, anno_id))
BufferUpdateAnno ==
    \E b \in 1..Len(buf_list), anno_id \in AnnoIds, disabled \in BOOLEAN :
        Call(Buffer_update(World, b, anno_id, disabled))
BufferClear ==
    \E b \in 1..Len(buf_list) :
        Call(Buffer_clear(World, b))
\* A read of the property last_typeNum.
GetTypeNum ==
    \E b \in 1..Len(buf_list) :
        LET w == get_typeNum(World, b)
        IN  Call(Return(w, PyInt(w.buf_list[b].last_typeNum)))
DefineFrameAnno ==
    \E b \in 1..Len(buf_list) :
        Call(define_frameanno(World, b))
\* The objects of the program: the Annotations and the FrameAnnotations
\* made so far, with the FrameAnnotation of the netbeans socket.
AnnotationRefs ==
    {Ref(n) : n \in {i \in 1..Len(heap) : heap[i].cls = "Annotation"}}
FrameAnnotationRefs ==
    {FRAME_OBJ} \cup {Ref(n) : n \in {i \in 1..Len(heap) : heap[i].cls = "FrameAnnotation"}}
\* The values stored in a Buffer from outside: an object of the program, or
\* None.
Values == AnnotationRefs \cup FrameAnnotationRefs \cup {None}

\* The methods Buffer inherits from dict.
BufferSetItem ==
    \E b \in 1..Len(buf_list), key \in AnnoIds, value \in Values :
        Call(Buffer_setitem(World, b, key, value))
BufferDelItem ==
    \E b \in 1..Len(buf_list), key \in AnnoIds :
        Call(Buffer_delitem(World, b, key))
BufferPop ==
    \E b \in 1..Len(buf_list), key \in AnnoIds :
        Call(Buffer_pop(World, b, key))
BufferPopItem ==
    \E b \in 1..Len(buf_list) :
        Call(Buffer_popitem(World, b))
BufferSetDefault ==
    \E b \in 1..Len(buf_list), key \in AnnoIds, default \in Values :
        Call(Buffer_setdefault(World, b, key, default))
BufferIor ==
    \E b \in 1..Len(buf_list), key \in AnnoIds, value \in Values :
        Call(Buffer_ior(World, b, key, value))

\* The constructors, called from outside: the object made is returned and
\* stored nowhere.
NewAnnotation ==
    \E b \in 1..Len(buf_list), bp \in AnnoIds, lnum \in Lnums, disabled \in BOOLEAN :
        LET w == Annotation(World, b, bp, lnum, disabled)
        IN  Call(Return(w, Ref(Len(w.heap))))
NewFrameAnnotation ==
    LET w1 == sernum_last(World)
        w == [w1 EXCEPT !.heap = Append(@, FrameAnnotation(w1.nbsock.sernum))]
    IN  Call(Return(w, Ref(Len(w.heap))))

AnnotationUpdate ==
    \E r \in AnnotationRefs, disabled \in BOOLEAN :
        Call(Annotation_update(World, r, disabled))
RemoveAnno ==
    \E r \in AnnotationRefs \cup FrameAnnotationRefs :
        Call(remove_anno(World, r))
DefineBpanno ==
    \E r \in AnnotationRefs \cup FrameAnnotationRefs :
        Call(define_bpanno(World, r))
SetBufLnum ==
    \E r \in FrameAnnotationRefs, b \in 1..Len(buf_list), lnum \in Lnums :
        Call(set_buf_lnum(World, r, b, lnum))
FrameUpdate ==
    \E r \in FrameAnnotationRefs, disabled \in BOOLEAN :
        Call(FrameAnnotation_update(World, r, disabled))

Next ==
    \/ AddAnno
    \/ AddBp
    \/ UpdateAnno
    \/ UpdateBp
    \/ DeleteAnno
    \/ ShowFrame
    \/ RemoveAll
    \/ GetBuf
    \/ GetLnumList
    \/ GetItem
    \/ SetItem
    \/ SetDefault
    \/ DelItem
    \/ PopItem
    \/ Pop
    \/ LenOp
    \/ Update
    \/ Copy
    \/ Clear
    \/ Ior
    \/ BufferUpdate
    \/ BufferRemoveAll
    \/ BufferAddAnno
    \/ BufferDeleteAnno
    \/ BufferUpdateAnno
    \/ BufferClear
    \/ BufferSetItem
    \/ BufferDelItem
    \/ BufferPop
    \/ BufferPopItem
    \/ BufferSetDefault
    \/ BufferIor
    \/ NewAnnotation
    \/ NewFrameAnnotation
    \/ GetTypeNum
    \/ DefineFrameAnno
    \/ AnnotationUpdate
    \/ RemoveAnno
    \/ DefineBpanno
    \/ SetBufLnum
    \/ FrameUpdate

Spec == Init /\ [][Next]_vars

-----------------------------------------------------------------------------
(* What the claims speak of.                                               *)

\* The state of the program: everything but the record of the last call,
\* the editor and the driver.
Program == <<buf_list, dict, anno_dict, nbsock, heap>>
ProgramOf(w) == <<w.buf_list, w.dict, w.anno_dict, w.nbsock, w.heap>>

Bufs == 1..Len(buf_list)

\* The Buffers whose mapping holds the key.
Holders(anno_id) == {b \in Bufs : DictHas(buf_list[b].annos, anno_id)}

\* The markers placed in the editor's buffer with this number.
Placed(n) == IF n \in 1..Len(editor) THEN editor[n].placed ELSE {}
IsPlaced(n, sernum) == \E m \in Placed(n) : m.sernum = sernum

\* The buffer numbers where the editor has the frame marker placed.
FramePlaces == {n \in 1..Len(editor) : IsPlaced(n, nbsock.frame_annotation.sernum)}

\* The positions in cmds of the commands cmd sent to buffer number n with
\* first argument arg.
Positions(cmds, n, cmd, arg) ==
    {i \in 1..Len(cmds) : cmds[i].buf = n /\ cmds[i].cmd = cmd /\ cmds[i].args[1] = arg}

\* The frame markers the editor has placed, each with its buffer number.
FrameMarkers ==
    UNION {{<<n, m>> : m \in {x \in Placed(n) : x.sernum = nbsock.frame_annotation.sernum}} :
           n \in 1..Len(editor)}

\* The Buffers of world w whose mapping holds the key.
HoldersIn(w, anno_id) ==
    {b \in 1..Len(w.buf_list) : DictHas(w.buf_list[b].annos, anno_id)}

\* The world a second call starts from, after a first call ended in w.
After(w) == [w EXCEPT !.sent = <<>>, !.exc = "", !.ret = None]

\* The breakpoint Annotations of world w, each with the Buffer holding it
\* and its key.
AnnotationsIn(w) ==
    UNION {{<<b, w.buf_list[b].annos[i].key, Obj(w, w.buf_list[b].annos[i].val)>> :
              i \in {j \in 1..Len(w.buf_list[b].annos) :
                       /\ w.buf_list[b].annos[j].val # None
                       /\ ~IsFrameAnnotation(w, w.buf_list[b].annos[j].val)}} :
           b \in 1..Len(w.buf_list)}
Annotations == AnnotationsIn(World)

\* The identifiers an Annotation received when it was made.
Identifiers(a) ==
    <<a.enabled_sernum, a.disabled_sernum, a.enabled_typeNum, a.disabled_typeNum>>

-----------------------------------------------------------------------------
(* C1 *)

\* C1: at most one frame annotation is registered at any time: the frame id
\* is held by at most one Buffer's mapping and at most one frame marker is
\* placed in the editor; and show_frame(p1, l1) followed by show_frame(p2, l2)
\* with p1 # p2 leaves exactly one frame annotation, hosted by p2's buffer at
\* line l2, a removeAnno for the frame's serial having been sent to p1's
\* buffer before the addAnno was sent to p2's buffer.
C1_OneFrameAnnotation ==
    /\ Cardinality(Holders(FRAME_ANNO_ID)) <= 1
    /\ Cardinality(FrameMarkers) <= 1
    /\ \A p1 \in AbsPaths, l1 \in Lnums \ {0}, l2 \in Lnums \ {0} :
        \A p2 \in AbsPaths \ {p1} :
          LET w1 == BufferSet_show_frame(World, p1, l1)
              w2 == BufferSet_show_frame(After(w1), p2, l2)
              b1 == DictGet(w2.dict, p1)
              b2 == DictGet(w2.dict, p2)
              frame == w2.nbsock.frame_annotation
              removed == Positions(w2.sent, w2.buf_list[b1].buf_id, "removeAnno", frame.sernum)
              added == Positions(w2.sent, w2.buf_list[b2].buf_id, "addAnno", frame.sernum)
          IN  /\ w1.exc = "" /\ w2.exc = ""
              /\ HoldersIn(w2, FRAME_ANNO_ID) = {b2}
              /\ DictGet(w2.anno_dict, FRAME_ANNO_ID) = b2
              /\ frame.buf = b2 /\ frame.lnum = l2 /\ frame.is_set
              /\ \E i \in removed : \E j \in added : i < j

-----------------------------------------------------------------------------
(* C2 *)

\* C2: an annotation id is globally unique across the buffers: in every
\* reachable state, for every annotation id, at most one Buffer's mapping
\* holds an Annotation under that id.
C2_IdGloballyUnique ==
    \A anno_id \in AnnoIds : Cardinality(Holders(anno_id)) <= 1

-----------------------------------------------------------------------------
(* C3 *)

\* C3: for all valid (path, line), add_anno (or add_bp) called again with an
\* id that is already registered makes no second Annotation for that id and
\* allocates no identifier: the serial number counter of the socket and the
\* marker type counter of every Buffer are unchanged, and the annotations
\* keep the serial and type identifiers they received when they were made.
C3_RepeatedAddAllocatesNothing ==
    \A anno_id \in AnnoIds, pathname \in AbsPaths, lnum \in Lnums \ {0} :
        DictHas(anno_dict, anno_id) =>
            LET w == BufferSet_add_anno(World, anno_id, pathname, lnum)
                wbp == BufferSet_add_bp(World, anno_id, pathname, lnum)
            IN  /\ w.exc = ""
                /\ ProgramOf(wbp) = ProgramOf(w)
                /\ HoldersIn(w, anno_id) = Holders(anno_id)
                /\ w.nbsock.sernum = nbsock.sernum
                /\ \A b \in 1..Len(w.buf_list) :
                      w.buf_list[b].last_typeNum =
                          IF b \in Bufs THEN buf_list[b].last_typeNum ELSE 0
                /\ {<<x[1], x[2], Identifiers(x[3])>> : x \in AnnotationsIn(w)}
                      = {<<x[1], x[2], Identifiers(x[3])>> : x \in Annotations}

-----------------------------------------------------------------------------
(* C4 *)

\* C4: the operations validate before they mutate: a call that fails with
\* an invalid argument (ValueError) or with not found (KeyError) leaves the
\* state as it was before the call and sends no command.
C4_ValidateBeforeMutate ==
    [][outcome'.exc \in {"ValueError", "KeyError"} =>
          /\ Program' = Program
          /\ sent' = <<>>
          /\ editor' = editor]_vars

-----------------------------------------------------------------------------
(* C5 *)

\* C5: for every Buffer, the commands sent for it start with editFile,
\* putBufferNumber, stopDocumentListen in that order, these three are sent
\* exactly once, and every marker command for the buffer comes after them.
C5_RegistrationFirstAndOnce ==
    /\ Len(editor) <= Len(buf_list)
    /\ \A n \in 1..Len(editor) :
          editor[n].head # <<>> =>
              /\ editor[n].head = RegistrationCmds
              /\ editor[n].nreg = 3

\* A call has sent marker commands, and nothing else, to a buffer that was
\* registered by an earlier call.
C5_Witness ==
    /\ sent # <<>>
    /\ \A i \in 1..Len(sent) : sent[i].cmd \in MarkerCmds
    /\ \E i \in 1..Len(sent) : sent[i].cmd = "removeAnno"
    /\ \E i \in 1..Len(sent) : sent[i].cmd = "addAnno"
    /\ editor[sent[1].buf].nreg = 3

-----------------------------------------------------------------------------
(* C6 *)

\* C6: buffer ids are given in creation order from 1 and never change: the
\* k-th element of buf_list has buf_id k, getbuf(k) returns it for 1 <= k <=
\* the number of buffers and None otherwise, no two Buffers have the same
\* path, and no call (del, pop and popitem among them) removes a Buffer from
\* buf_list or changes its place, its path or its buf_id.
C6_BufferIdsInCreationOrder ==
    /\ [](/\ \A k \in Bufs : buf_list[k].buf_id = k
          /\ \A j, k \in Bufs : buf_list[j].name = buf_list[k].name => j = k
          /\ \A k \in 0..(Len(buf_list) + 1) :
                LET w == BufferSet_getbuf(World, k)
                IN  /\ w.exc = ""
                    /\ ProgramOf(w) = Program
                    /\ w.ret = IF k \in Bufs THEN <<"Buffer", k>> ELSE None)
    /\ [][/\ Len(buf_list') >= Len(buf_list)
          /\ \A k \in Bufs :
                /\ buf_list'[k].name = buf_list[k].name
                /\ buf_list'[k].buf_id = buf_list[k].buf_id]_vars

-----------------------------------------------------------------------------
(* C7 *)

\* C7: for an annotation id that is not in anno_dict, delete_anno and
\* update_anno fail with KeyError and update_bp returns False without
\* raising; none of the three sends a command or changes the state.  For an
\* id that is in anno_dict update_bp returns True.
C7_UnknownAnnotation ==
    \A anno_id \in AnnoIds, disabled \in BOOLEAN :
        LET del == BufferSet_delete_anno(World, anno_id)
            upd == BufferSet_update_anno(World, anno_id, disabled)
            ubp == BufferSet_update_bp(World, anno_id, disabled)
        IN  IF ~DictHas(anno_dict, anno_id)
            THEN /\ del.exc = "KeyError" /\ del.sent = <<>> /\ ProgramOf(del) = Program
                 /\ upd.exc = "KeyError" /\ upd.sent = <<>> /\ ProgramOf(upd) = Program
                 /\ ubp.exc = "" /\ ubp.ret = PyBool(FALSE)
                 /\ ubp.sent = <<>> /\ ProgramOf(ubp) = Program
            ELSE ubp.exc = "" /\ ubp.ret = PyBool(TRUE)

\* update_bp has returned False, with annotations registered under other ids.
C7_Witness ==
    /\ outcome = [exc |-> "", ret |-> PyBool(FALSE)]
    /\ sent = <<>>
    /\ anno_dict # <<>>

-----------------------------------------------------------------------------
(* C8 *)

\* C8: an Annotation is destroyed when it is deleted: after delete_anno(id)
\* of a registered id, breakpoint or frame, the id is absent from anno_dict
\* and from the mapping of the Buffer that held it; and no call removes a key
\* from a Buffer's mapping unless it deletes that id from anno_dict.
C8_DeletedAnnotationIsDestroyed ==
    /\ [](\A anno_id \in AnnoIds :
            DictHas(anno_dict, anno_id) =>
                LET b == DictGet(anno_dict, anno_id)
                    w == BufferSet_delete_anno(World, anno_id)
                IN  /\ w.exc = ""
                    /\ ~DictHas(w.anno_dict, anno_id)
                    /\ ~DictHas(w.buf_list[b].annos, anno_id))
    /\ [][\A b \in Bufs : \A i \in 1..Len(buf_list[b].annos) :
             LET key == buf_list[b].annos[i].key
             IN  ~DictHas(buf_list'[b].annos, key) =>
                     DictHas(anno_dict, key) /\ ~DictHas(anno_dict', key)]_vars

-----------------------------------------------------------------------------
(* C9 *)

\* C9: at most one of the two markers of an Annotation is placed at a time:
\* in no reachable state does the editor have both the enabled serial and
\* the disabled serial of the same Annotation placed.
C9_OneMarkerOfThePair ==
    \A x \in Annotations : \A n \in 1..Len(editor) : \A m \in 1..Len(editor) :
        ~(IsPlaced(n, x[3].enabled_sernum) /\ IsPlaced(m, x[3].disabled_sernum))

\* A placed breakpoint has been toggled: its enabled marker was removed by
\* the last call and its disabled marker is the one placed.
C9_Witness ==
    \E x \in Annotations :
        /\ x[3].disabled /\ x[3].is_set
        /\ IsPlaced(buf_list[x[1]].buf_id, x[3].disabled_sernum)
        /\ ~IsPlaced(buf_list[x[1]].buf_id, x[3].enabled_sernum)
        /\ Positions(sent, buf_list[x[1]].buf_id, "removeAnno", x[3].enabled_sernum) # {}

-----------------------------------------------------------------------------
(* C10 *)

\* The editor's buffers of the state, after the commands of world w.
EditorAfter(w) == ReceiveAll(editor, w.sent, 1)

\* C10: show_frame(None) only clears the frame: after it the frame id is
\* absent from anno_dict and from every Buffer's mapping, the editor has no
\* frame marker placed in any buffer, and no breakpoint annotation and no
\* breakpoint marker has changed.
C10_ShowFrameNoneClears ==
    LET w == BufferSet_show_frame(World, None, 1)
        ed == EditorAfter(w)
        frame == w.nbsock.frame_annotation
    IN  /\ w.exc = ""
        /\ ~DictHas(w.anno_dict, FRAME_ANNO_ID)
        /\ HoldersIn(w, FRAME_ANNO_ID) = {}
        /\ \A n \in 1..Len(ed) : \A m \in ed[n].placed : m.sernum # frame.sernum
        /\ AnnotationsIn(w) = Annotations
        /\ \A n \in 1..Len(ed) :
              {m \in ed[n].placed : m.sernum # frame.sernum}
                  = {m \in Placed(n) : m.sernum # frame.sernum}

-----------------------------------------------------------------------------
(* C11 *)

\* The type numbers Buffer b of world w has handed out: those of the
\* Annotations made under it and its frame type number once allocated.
TypeNumsIn(w, b) ==
    UNION {{x[3].enabled_typeNum, x[3].disabled_typeNum} :
              x \in {y \in AnnotationsIn(w) : y[1] = b}}
        \cup (IF w.buf_list[b].frame_typeNum # 0
              THEN {w.buf_list[b].frame_typeNum} ELSE {})

\* The number of allocations Buffer b of world w has made.
AllocationsIn(w, b) ==
    2 * Cardinality({y \in AnnotationsIn(w) : y[1] = b})
        + (IF w.buf_list[b].frame_typeNum # 0 THEN 1 ELSE 0)

\* C11: the type numbers a Buffer hands out start at 1, each is one more
\* than the one before, and none is handed out twice: in every state the
\* numbers held by the Buffer's Annotations and its frame type number are
\* pairwise distinct and are exactly 1..last_typeNum, an Annotation's
\* disabled number follows its enabled number; and over every call the
\* counter does not decrease, the numbers handed out before stay with their
\* holders, the new ones are above the old counter, and a non-zero frame
\* type number does not change.
C11_TypeCounter ==
    /\ [](\A b \in Bufs :
            /\ TypeNumsIn(World, b) = 1..buf_list[b].last_typeNum
            /\ AllocationsIn(World, b) = buf_list[b].last_typeNum
            /\ \A x \in Annotations :
                  x[1] = b => x[3].disabled_typeNum = x[3].enabled_typeNum + 1)
    /\ [][\A b \in Bufs :
            /\ buf_list'[b].last_typeNum >= buf_list[b].last_typeNum
            /\ buf_list[b].frame_typeNum # 0 =>
                  buf_list'[b].frame_typeNum = buf_list[b].frame_typeNum
            /\ \A x \in Annotations :
                  x[1] = b =>
                      \E y \in AnnotationsIn(World') :
                          /\ y[1] = b /\ y[2] = x[2]
                          /\ y[3].enabled_typeNum = x[3].enabled_typeNum
                          /\ y[3].disabled_typeNum = x[3].disabled_typeNum
            /\ \A t \in TypeNumsIn(World', b) \ TypeNumsIn(World, b) :
                  t > buf_list[b].last_typeNum]_vars

\* The frame was placed in a Buffer first, a breakpoint was made in the
\* same Buffer, and the last call took the frame away from the Buffer and
\* brought it back: the frame has kept type number 1.
C11_Witness ==
    \E b \in Bufs :
        /\ buf_list[b].frame_typeNum = 1
        /\ buf_list[b].last_typeNum = 3
        /\ nbsock.frame_annotation.buf = b
        /\ nbsock.frame_annotation.is_set
        /\ Positions(sent, buf_list[b].buf_id, "removeAnno", nbsock.frame_annotation.sernum) # {}
        /\ \E i \in 1..Len(sent) :
              /\ sent[i].cmd = "addAnno"
              /\ sent[i].args[1] = nbsock.frame_annotation.sernum
              /\ sent[i].args[2] = 1

-----------------------------------------------------------------------------
(* C12 *)

\* C12: get_lnum_list(path) returns the lines of the enabled breakpoint
\* Annotations held by the Buffer of that path, each line as many times as
\* there are such Annotations on it: no line of a disabled breakpoint, none
\* of the frame; the empty list when the set has no Buffer for the path; it
\* raises nothing, sends nothing, makes no Buffer and changes no state.
C12_LnumList ==
    \A pathname \in Paths :
        LET w == BufferSet_get_lnum_list(World, pathname)
        IN  /\ w.exc = ""
            /\ w.sent = <<>>
            /\ ProgramOf(w) = Program
            /\ w.ret[1] = "list"
            /\ IF DictHas(dict, pathname)
               THEN LET b == DictGet(dict, pathname)
                        enabled == {x \in Annotations : x[1] = b /\ ~x[3].disabled}
                    IN  /\ Len(w.ret[2]) = Cardinality(enabled)
                        /\ \A l \in Lnums :
                              Cardinality({i \in 1..Len(w.ret[2]) : w.ret[2][i] = l})
                                  = Cardinality({x \in enabled : x[3].lnum = l})
               ELSE w.ret[2] = <<>>

-----------------------------------------------------------------------------
(* C13 *)

\* The breakpoint Annotation of world w held by Buffer b under the key.
AnnotationOf(w, b, key) == Obj(w, DictGet(w.buf_list[b].annos, key))

\* The breakpoint ids Buffer b holds.
BpKeys(b) == {x[2] : x \in {y \in Annotations : y[1] = b}}

\* C13: Buffer.add_anno(id, lnum) on an id the Buffer already holds changes
\* the stored line only: after the call the Annotation has the line lnum
\* and the same disabled flag, the same defined flag and the same serial
\* and type numbers as before, whether it was enabled or disabled.
C13_AddAnnoUpdatesLineOnly ==
    \A b \in Bufs : \A key \in BpKeys(b) : \A lnum \in Lnums \ {0} :
        LET before == AnnotationOf(World, b, key)
            w == Buffer_add_anno(World, b, key, lnum)
            after == AnnotationOf(w, b, key)
        IN  /\ w.exc = ""
            /\ after.lnum = lnum
            /\ after.disabled = before.disabled
            /\ after.defined = before.defined
            /\ Identifiers(after) = Identifiers(before)

-----------------------------------------------------------------------------
(* C14 *)

\* C14: Buffer.update() with no id updates every Annotation the Buffer
\* holds with the Annotation's own disabled flag: after the call each has
\* the disabled flag it had before and is placed, and each that was not
\* placed before has been placed by an addAnno with the serial and type
\* number of its stored flag, at its line.
C14_UpdateAllKeepsFlags ==
    \A b \in Bufs :
        LET w == Buffer_update(World, b, None, FALSE)
        IN  /\ w.exc = ""
            /\ \A key \in BpKeys(b) :
                  LET before == AnnotationOf(World, b, key)
                      after == AnnotationOf(w, b, key)
                      sernum == IF before.disabled THEN before.disabled_sernum
                                ELSE before.enabled_sernum
                      typeNum == IF before.disabled THEN before.disabled_typeNum
                                 ELSE before.enabled_typeNum
                  IN  /\ after.disabled = before.disabled
                      /\ after.is_set
                      /\ ~before.is_set =>
                            \E i \in 1..Len(w.sent) :
                                w.sent[i] = [buf |-> w.buf_list[b].buf_id, cmd |-> "addAnno",
                                             args |-> <<sernum, typeNum, before.lnum>>]

-----------------------------------------------------------------------------
(* C15 *)

\* C15: update_bp(id, d), and update_anno(id, d), on a registered id whose
\* Annotation is placed in a registered Buffer: when the stored disabled
\* flag differs from d the call sends exactly removeAnno with the serial
\* that was active, addAnno with the serial and the type number of the
\* other variant at the stored line, and setDot, declares no type again,
\* leaves the flag at d, and update_bp returns True; when the flag is d
\* the call sends nothing and changes nothing.
C15_Toggle ==
    \A bp_id \in BpIds, d \in BOOLEAN :
        (/\ DictHas(anno_dict, bp_id)
         /\ DictHas(buf_list[DictGet(anno_dict, bp_id)].annos, bp_id)) =>
            LET b == DictGet(anno_dict, bp_id)
                n == buf_list[b].buf_id
                a == AnnotationOf(World, b, bp_id)
                ubp == BufferSet_update_bp(World, bp_id, d)
                upd == BufferSet_update_anno(World, bp_id, d)
                other_sernum == IF d THEN a.disabled_sernum ELSE a.enabled_sernum
                other_typeNum == IF d THEN a.disabled_typeNum ELSE a.enabled_typeNum
            IN  (buf_list[b].registered /\ a.is_set) =>
                    /\ ubp.exc = "" /\ upd.exc = ""
                    /\ ubp.ret = PyBool(TRUE)
                    /\ upd.sent = ubp.sent
                    /\ ProgramOf(upd) = ProgramOf(ubp)
                    /\ AnnotationOf(ubp, b, bp_id).disabled = d
                    /\ IF a.disabled # d
                       THEN /\ a.sernum = IF a.disabled THEN a.disabled_sernum
                                          ELSE a.enabled_sernum
                            /\ ubp.sent =
                                 << [buf |-> n, cmd |-> "removeAnno", args |-> <<a.sernum>>],
                                    [buf |-> n, cmd |-> "addAnno",
                                     args |-> <<other_sernum, other_typeNum, a.lnum>>],
                                    [buf |-> n, cmd |-> "setDot", args |-> <<a.lnum>>] >>
                            /\ AnnotationOf(ubp, b, bp_id).is_set
                       ELSE /\ ubp.sent = <<>>
                            /\ ProgramOf(ubp) = Program

-----------------------------------------------------------------------------
(* C16 *)

\* C16: every id of anno_dict maps to a Buffer of buf_list whose mapping
\* holds the id; so delete_anno, update_anno and update_bp of a registered
\* id, show_frame and remove_all never fail in Buffer.delete_anno's
\* assertion or Buffer.update's lookup: they raise nothing.
C16_RegistryConsistent ==
    /\ \A i \in 1..Len(anno_dict) :
          /\ anno_dict[i].val \in Bufs
          /\ DictHas(buf_list[anno_dict[i].val].annos, anno_dict[i].key)
    /\ \A anno_id \in AnnoIds :
          DictHas(anno_dict, anno_id) =>
              /\ BufferSet_delete_anno(World, anno_id).exc = ""
              /\ \A d \in BOOLEAN :
                    /\ BufferSet_update_anno(World, anno_id, d).exc = ""
                    /\ BufferSet_update_bp(World, anno_id, d).exc = ""
    /\ BufferSet_show_frame(World, None, 1).exc = ""
    /\ \A p \in AbsPaths, lnum \in Lnums \ {0} :
          BufferSet_show_frame(World, p, lnum).exc = ""
    /\ BufferSet_remove_all(World).exc = ""
    /\ BufferSet_remove_all(World).anno_dict = <<>>

\* Two ids were registered and the last call deleted one of them: the
\* registry holds the other, the Buffer still holds the deleted one.
C16_Witness ==
    /\ anno_dict # <<>>
    /\ outcome.exc = ""
    /\ \E i \in 1..Len(sent) : sent[i].cmd = "removeAnno"
    /\ \E b \in Bufs : \E key \in BpKeys(b) : ~DictHas(anno_dict, key)

-----------------------------------------------------------------------------
(* C17 *)

\* The declarations of the marker variants that have the serial number, in
\* world w: name, glyph and colour, as define_frameanno and define_bpanno
\* send them.  The name of the enabled variant of breakpoint 0 is "0", the
\* name of the frame: the glyph and the colour tell them apart.
VariantDecls(w, sernum) ==
    (IF w.nbsock.frame_annotation.sernum = sernum
     THEN {<<<<"0">>, <<"=", ">">>, 2>>} ELSE {})
    \cup {<<str(2 * x[3].bp[2]), LastTwo(str(x[3].bp[2])), 0>> :
            x \in {y \in AnnotationsIn(w) :
                      y[3].bp[1] = "int" /\ y[3].enabled_sernum = sernum}}
    \cup {<<str(2 * x[3].bp[2] + 1), LastTwo(str(x[3].bp[2])), 1>> :
            x \in {y \in AnnotationsIn(w) :
                      y[3].bp[1] = "int" /\ y[3].disabled_sernum = sernum}}

\* C17: the type number of every addAnno sent to a buffer is the position,
\* among the defineAnnoType commands sent to that buffer before it, of the
\* declaration of the variant the addAnno places (the frame, a breakpoint's
\* enabled variant or its disabled variant), and that variant is declared
\* at no other position.
C17_TypeNumberIsDeclarationOrder ==
    [][\A i \in 1..Len(sent') :
          sent'[i].cmd = "addAnno" =>
              LET ed == ReceiveAll(editor, SubSeq(sent', 1, i - 1), 1)
                  n == sent'[i].buf
                  typeNum == sent'[i].args[2]
                  decls == VariantDecls(World', sent'[i].args[1])
              IN  /\ n \in 1..Len(ed)
                  /\ typeNum \in 1..Len(ed[n].types)
                  /\ decls = {ed[n].types[typeNum]}
                  /\ \A j \in 1..Len(ed[n].types) :
                        ed[n].types[j] \in decls => j = typeNum]_vars

\* A breakpoint, then the frame, then a second breakpoint were declared in
\* one buffer, and the second breakpoint is placed with type number 4.
C17_Witness ==
    \E n \in 1..Len(editor) :
        /\ Len(editor[n].types) = 5
        /\ editor[n].types[3] = <<<<"0">>, <<"=", ">">>, 2>>
        /\ \E m \in editor[n].placed : m.typeNum = 4
        /\ \E m \in editor[n].placed : m.typeNum = 3
        /\ \E m \in editor[n].placed : m.typeNum = 1

-----------------------------------------------------------------------------
(* C18 *)

\* The editor's buffer with this number has the serial number placed, and
\* the latest addAnno of the serial number carried the line.
PlacedAt(n, sernum, lnum) ==
    /\ IsPlaced(n, sernum)
    /\ [sernum |-> sernum, lnum |-> lnum] \in editor[n].last

\* C18: a placed marker is on the stored line: for every Annotation with
\* is_set, and for the frame when it has is_set, the active serial is
\* placed in the Annotation's buffer and the latest addAnno of that serial
\* carried the Annotation's stored line.  So after add_anno(id, path, l2) of
\* an id placed on another line the marker is on l2.
C18_MarkerOnStoredLine ==
    /\ \A x \in Annotations :
          x[3].is_set =>
              PlacedAt(buf_list[x[3].buf].buf_id, x[3].sernum, x[3].lnum)
    /\ nbsock.frame_annotation.is_set =>
          PlacedAt(buf_list[nbsock.frame_annotation.buf].buf_id,
                   nbsock.frame_annotation.sernum, nbsock.frame_annotation.lnum)

-----------------------------------------------------------------------------
(* C19 *)

\* The markers the editor ed has placed, each with its buffer number.
MarkersOf(ed) == UNION {{<<n, m>> : m \in ed[n].placed} : n \in 1..Len(ed)}

\* The markers the program records as placed: the buffer number and the
\* active serial of every Annotation, and of the frame, that has is_set.
RecordedPlaced ==
    {<<buf_list[x[3].buf].buf_id, x[3].sernum>> : x \in {y \in Annotations : y[3].is_set}}
    \cup (IF nbsock.frame_annotation.is_set
          THEN {<<buf_list[nbsock.frame_annotation.buf].buf_id,
                  nbsock.frame_annotation.sernum>>}
          ELSE {})

\* C19: the stream of addAnno and removeAnno is well formed: an addAnno
\* never carries a serial number that is placed, a removeAnno never carries
\* one that is not placed in the buffer it is sent to; and in every state
\* the markers placed in the editor are exactly the active serials of the
\* Annotations that have is_set, each placed once.
C19_WellFormedStream ==
    /\ [](/\ {<<p[1], p[2].sernum>> : p \in MarkersOf(editor)} = RecordedPlaced
          /\ \A p, q \in MarkersOf(editor) : p[2].sernum = q[2].sernum => p = q)
    /\ [][\A i \in 1..Len(sent') :
            LET ed == ReceiveAll(editor, SubSeq(sent', 1, i - 1), 1)
                c == sent'[i]
            IN  /\ c.cmd = "addAnno" =>
                      \A p \in MarkersOf(ed) : p[2].sernum # c.args[1]
                /\ c.cmd = "removeAnno" =>
                      \E p \in MarkersOf(ed) : p[1] = c.buf /\ p[2].sernum = c.args[1]]_vars

-----------------------------------------------------------------------------
(* C20 *)

\* C20: a deleted breakpoint stays removed: while the id of a breakpoint
\* Annotation is out of anno_dict (it was deleted and not added again), no
\* call sends an addAnno with the Annotation's enabled serial or with its
\* disabled serial; Buffer.update() with no id and the operations on other
\* ids of the same Buffer do not place it again.
C20_DeletedStaysRemoved ==
    [][\A x \in Annotations :
          (~DictHas(anno_dict, x[2]) /\ ~DictHas(anno_dict', x[2])) =>
              \A i \in 1..Len(sent') :
                  sent'[i].cmd = "addAnno" =>
                      sent'[i].args[1] \notin {x[3].enabled_sernum, x[3].disabled_sernum}]_vars

=============================================================================
